---- MODULE Spec2Model ----
(***************************************************************************)
(* use_context: scoped snapshot / rollback of mutable objects and of name  *)
(* bindings (src/use_context/__init__.py).                                 *)
(*                                                                         *)
(* The model is one caller: it calls use(items, refs), runs a            *)
(* protected block that mutates objects, rebinds names and queries the     *)
(* scope, and leaves the block normally or by raising.                     *)
(***************************************************************************)
EXTENDS Integers, Sequences, FiniteSets, TLC

\* ------------------------------------------------------------------ bounds
\* arguments (objects plus names) of one use(...) call
MaxArgs == 2
\* state-changing statements of the caller after use(...) returned
MaxSteps == 2
\* longest list the block builds
MaxLen == 3

Vals == {1, 2}
NULL == "NULL"
None == "None"
\* a Python bool as a result value
Bool(b) == IF b THEN "True" ELSE "False"
EmptyFn == [k \in {} |-> 0]

\* ------------------------------------------------------- the object universe
\* Objects are named by their identity.  L1/L2 and B1/B2 are equal but distinct.
\* DCC1 is a dataclass instance with copy/clear/update methods, DS1 an
\* instance of a dict subclass with get_state/from_state methods, LS1 an
\* instance of a list subclass, SD1 an instance of a plain subclass of the
\* slotted class SlottedBase, PS1 an instance of a class whose __slots__
\* names a private attribute.
Objs ==
    {"L1", "L2", "S1", "D1", "DD1", "DC1", "ST1", "SR1", "B1", "B2", "SL1",
     "US1", "USS1", "BA1", "K1", "I15", "I16", "STR1", "T1", "FS1",
     "DCC1", "DS1", "LS1", "SD1", "PS1"}

\* type(item)
type(o) ==
    CASE o \in {"L1", "L2"} -> "list"
      [] o = "S1"   -> "set"
      [] o = "D1"   -> "dict"
      [] o = "DD1"  -> "defaultdict"
      [] o = "DC1"  -> "DC"
      [] o = "ST1"  -> "StateObj"
      [] o = "SR1"  -> "StateRej"
      [] o \in {"B1", "B2"} -> "Bag"
      [] o = "SL1"  -> "Slotted"
      [] o = "US1"  -> "UserStr"
      [] o = "USS1" -> "UserStrSlots"
      [] o = "BA1"  -> "bytearray"
      [] o = "K1"   -> "type"
      [] o \in {"I15", "I16"} -> "int"
      [] o = "STR1" -> "str"
      [] o = "T1"   -> "tuple"
      [] o = "FS1"  -> "frozenset"
      [] o = "DCC1" -> "DCContainer"
      [] o = "DS1"  -> "DictState"
      [] o = "LS1"  -> "ListSub"
      [] o = "SD1"  -> "SlotDict"
      [] o = "PS1"  -> "PrivSlots"

\* cls.__mro__
mro(cls) ==
    CASE cls = "Slotted"      -> <<"Slotted", "SlottedBase", "object">>
      [] cls = "UserStr"      -> <<"UserStr", "str", "object">>
      [] cls = "UserStrSlots" -> <<"UserStrSlots", "str", "object">>
      [] cls = "DictState"    -> <<"DictState", "dict", "object">>
      [] cls = "ListSub"      -> <<"ListSub", "list", "object">>
      [] cls = "SlotDict"     -> <<"SlotDict", "SlottedBase", "object">>
      [] OTHER                -> <<cls, "object">>

\* getattr(base, '__slots__', ()): a str, or a tuple of names
SlotsDecl(base) ==
    CASE base = "Slotted"      -> [isstr |-> FALSE, val |-> {"a", "b"}]
      [] base = "SlottedBase"  -> [isstr |-> TRUE,  val |-> "c"]
      [] base = "UserStrSlots" -> [isstr |-> TRUE,  val |-> "value"]
      [] base = "PrivSlots"    -> [isstr |-> FALSE, val |-> {"__priv", "a"}]
      [] OTHER                 -> [isstr |-> FALSE, val |-> {}]

\* dataclasses.is_dataclass(target) and dataclasses.fields(target)
is_dataclass(o) == type(o) \in {"DC", "DCContainer"}
fields(o) == IF is_dataclass(o) THEN {"f1", "f2"} ELSE {}

\* the names n for which callable(getattr(target, n, None))
Callables(o) ==
    CASE type(o) \in {"list", "bytearray", "ListSub"} -> {"copy", "clear"}
      [] type(o) \in {"set", "dict", "defaultdict", "DCContainer"} ->
                                                        {"copy", "clear", "update"}
      [] type(o) = "frozenset"                       -> {"copy"}
      [] type(o) \in {"StateObj", "StateRej"}        -> {"get_state", "from_state"}
      [] type(o) = "DictState" ->
            {"copy", "clear", "update", "get_state", "from_state"}
      [] OTHER                                       -> {}

\* vars(item): the instance's __dict__, TypeError when it has none, and a
\* mappingproxy for a class object
vars_kind(o) ==
    CASE type(o) \in {"DC", "StateObj", "StateRej", "Bag", "UserStr",
                      "DCContainer", "DictState", "ListSub", "SlotDict"} -> "dict"
      [] type(o) = "type" -> "mappingproxy"
      [] OTHER            -> "TypeError"

\* the object's state: list elements, set elements, mapping items, the
\* attribute dictionary, the slot values
Blank == [seq |-> <<>>, elems |-> {}, map |-> EmptyFn, attrs |-> EmptyFn,
          slots |-> EmptyFn]

InitObj(o) ==
    CASE o \in {"L1", "L2"} -> [Blank EXCEPT !.seq = <<1, 2>>]
      [] o = "BA1"  -> [Blank EXCEPT !.seq = <<1, 2>>]
      [] o = "S1"   -> [Blank EXCEPT !.elems = {1}]
      [] o = "D1"   -> [Blank EXCEPT !.map = [k \in {"k1"} |-> 1]]
      [] o \in {"DC1", "DCC1"} ->
                       [Blank EXCEPT !.attrs = [k \in {"f1", "f2"} |-> 1]]
      [] o = "DS1"  -> [Blank EXCEPT !.map = [k \in {"k1"} |-> 1]]
      [] o = "LS1"  -> [Blank EXCEPT !.seq = <<1, 2>>,
                                     !.attrs = [k \in {"x"} |-> 1]]
      [] o = "SD1"  -> [Blank EXCEPT !.slots = [k \in {"c"} |-> 1],
                                     !.attrs = [k \in {"x"} |-> 1]]
      [] o = "PS1"  -> [Blank EXCEPT
                          !.slots = [k \in {"_PrivSlots__priv", "a"} |-> 1]]
      [] o \in {"ST1", "SR1", "B1", "B2"} ->
                       [Blank EXCEPT !.attrs = [k \in {"x"} |-> 1]]
      [] o = "US1"  -> [Blank EXCEPT !.attrs = [k \in {"value"} |-> 2]]
      [] o = "SL1"  -> [Blank EXCEPT !.slots = [k \in {"a"} |-> 1]]
      [] o = "USS1" -> [Blank EXCEPT !.slots = [k \in {"value"} |-> 2]]
      [] OTHER      -> Blank

\* the names under which the slots of o's class hold their values: the
\* declared names, a private name in its mangled form
SlotStorage(o) ==
    CASE type(o) = "Slotted"      -> {"a", "b", "c"}
      [] type(o) = "UserStrSlots" -> {"value"}
      [] type(o) = "SlotDict"     -> {"c"}
      [] type(o) = "PrivSlots"    -> {"_PrivSlots__priv", "a"}
      [] OTHER                    -> {}

\* partial-function helpers (dict / attribute storage)
Put(f, k, v) == [x \in DOMAIN f \cup {k} |-> IF x = k THEN v ELSE f[x]]
Del(f, k) == [x \in DOMAIN f \ {k} |-> f[x]]

\* ------------------------------------------------------------ references
\* A capture's target is a reference: to a tracked object, or to the
\* attribute dictionary vars(item) of one.
ObjRef(o) == [obj |-> o, of |-> "self"]
DictRef(o) == [obj |-> o, of |-> "__dict__"]

\* target.copy() of a container; target.clear(); target.update(state)
Content(h, t) ==
    IF t.of = "__dict__" THEN h[t.obj].attrs
    ELSE IF type(t.obj) = "set" THEN h[t.obj].elems
    ELSE h[t.obj].map

\* (mutant) self.target = self.state: the capture's own reference is rebound,
\* the container is left alone
SetContent_rebinding(h, t, v) == h

SetContent(h, t, v) ==
    IF t.of = "__dict__" THEN [h EXCEPT ![t.obj].attrs = v]
    ELSE IF type(t.obj) = "set" THEN [h EXCEPT ![t.obj].elems = v]
    ELSE [h EXCEPT ![t.obj].map = v]

\* the state-object protocol of the tracked class: get_state() returns a
\* copy of its attribute dictionary, from_state(state) clears and updates it;
\* the StateRej class rejects every state it is given.
target_get_state(h, o) == h[o].attrs
target_from_state(h, o, state) ==
    IF type(o) = "StateRej"
    THEN [err |-> "RuntimeError", heap |-> h]
    ELSE [err |-> None, heap |-> [h EXCEPT ![o].attrs = state]]

\* ------------------------------------------------------------ _IRollbackable
\* (mutant) registration looked up with isinstance: subclasses count too
type_map_isinstance ==
    [c \in {"list", "set", "dict", "defaultdict", "ListSub", "DictState"} |->
        IF c \in {"list", "ListSub"} THEN "_List" ELSE "_GenericContainer"]

type_map ==
    [c \in {"list", "set", "dict", "defaultdict"} |->
        IF c = "list" THEN "_List" ELSE "_GenericContainer"]

\* (mutant) the variants declared in another order
all_subclass_reordered ==
    <<"_List", "_State", "_GenericContainer", "_DataClass", "_Slots",
      "_RollbackableProxy">>

all_subclass ==
    <<"_List", "_DataClass", "_GenericContainer", "_State", "_Slots",
      "_RollbackableProxy">>

\* __init__(target): state is None until track()
NewRb(variant, target) ==
    [variant |-> variant, target |-> target, state |-> None,
     attrs |-> {}, proxy_obj |-> None]

\* the values of the names in `names` that f holds (getattr succeeds)
Present(f, names) == [k \in DOMAIN f \cap names |-> f[k]]

\* for every name: set it to the captured value if captured, else delete it
\* if it is now set
Restore(f, names, state) ==
    [k \in (DOMAIN f \ names) \cup DOMAIN state |->
        IF k \in DOMAIN state THEN state[k] ELSE f[k]]

\* <variant>.has_proto(target)
has_proto(variant, o) ==
    CASE variant = "_DataClass"        -> is_dataclass(o)
      [] variant = "_GenericContainer" ->
            {"copy", "clear", "update"} \subseteq Callables(o)
      [] variant = "_State" -> {"get_state", "from_state"} \subseteq Callables(o)
      [] OTHER -> FALSE

\* <variant>.get_state() of a capture that is not a proxy
get_state_plain(h, rb) ==
    CASE rb.variant = "_List"             -> h[rb.target.obj].seq
      [] rb.variant = "_DataClass"        ->
            Present(h[rb.target.obj].attrs, fields(rb.target.obj))
      [] rb.variant = "_GenericContainer" -> Content(h, rb.target)
      [] rb.variant = "_State"            -> target_get_state(h, rb.target.obj)
      [] rb.variant = "_Slots"            ->
            Present(h[rb.target.obj].slots, rb.attrs)

get_state(h, rb) ==
    IF rb.variant = "_RollbackableProxy"
    THEN get_state_plain(h, rb.proxy_obj)
    ELSE get_state_plain(h, rb)

\* track(): state = get_state(); the proxy tracks its proxy_obj instead
rb_track(h, rb) ==
    IF rb.variant = "_RollbackableProxy"
    THEN [rb EXCEPT !.proxy_obj =
            [rb.proxy_obj EXCEPT !.state = get_state_plain(h, rb.proxy_obj)]]
    ELSE [rb EXCEPT !.state = get_state_plain(h, rb)]

\* the state the capture compares against and restores
held_state(rb) ==
    IF rb.variant = "_RollbackableProxy" THEN rb.proxy_obj.state ELSE rb.state

\* (mutant) compares by identity: get_state() returns a fresh object
rb_is_changed_identity(h, rb) == TRUE

\* is_changed(): self.state != self.get_state()
rb_is_changed(h, rb) == held_state(rb) # get_state(h, rb)

\* <variant>.rollback() of a capture that is not a proxy: the heap after it
\* and the error it raised
rollback_plain(h, rb) ==
    CASE rb.variant = "_List" ->
            [err |-> None, heap |-> [h EXCEPT ![rb.target.obj].seq = rb.state]]
      [] rb.variant = "_DataClass" ->
            [err |-> None,
             heap |-> [h EXCEPT ![rb.target.obj].attrs =
                          Restore(@, fields(rb.target.obj), rb.state)]]
      [] rb.variant = "_GenericContainer" ->
            [err |-> None, heap |-> SetContent(h, rb.target, rb.state)]
      [] rb.variant = "_State" ->
            target_from_state(h, rb.target.obj, rb.state)
      [] rb.variant = "_Slots" ->
            [err |-> None,
             heap |-> [h EXCEPT ![rb.target.obj].slots =
                          Restore(@, rb.attrs, rb.state)]]

rb_rollback(h, rb) ==
    IF rb.variant = "_RollbackableProxy"
    THEN rollback_plain(h, rb.proxy_obj)
    ELSE rollback_plain(h, rb)

\* _get_slots_attrs(cls): the union of the __slots__ of every class of the
\* mro, a str counting as the one-element tuple
_get_slots_attrs(cls) ==
    UNION { LET s == SlotsDecl(mro(cls)[i])
            IN  IF s.isstr THEN {s.val} ELSE s.val : i \in 1..Len(mro(cls)) }


\* ------------------------------------------------------------------ _Ref
\* The frame that called use(): its code object's name tables.  "a" and "u"
\* are plain locals ("u" is not assigned yet), "n" is a nonlocal of an
\* enclosing function, "c" is a local that a nested function closes over;
\* "g" is a module global, and the module also has a global called "c".
co_varnames == {"a", "u"}
co_freevars == {"n"}
co_cellvars == {"c"}
LocalsPlus == co_varnames \cup co_freevars \cup co_cellvars
Names == LocalsPlus \cup {"g"}

\* frame.f_locals: the frame's dictionary, refreshed from the fast storage
\* every time it is read
f_locals(fast) == [k \in {x \in LocalsPlus : fast[x] # NULL} |-> fast[k]]

\* PyFrame_LocalsToFast(frame, 0): the dictionary's entries written back to
\* the fast storage, names it lacks left alone
LocalsToFast(d, fast) ==
    [k \in LocalsPlus |-> IF k \in DOMAIN d THEN d[k] ELSE fast[k]]

\* _Ref._d()
ref_d(fast, glob, in_local) == IF in_local THEN f_locals(fast) ELSE glob

\* name in (f_code.co_varnames + f_code.co_freevars)
ref_in_local(name) == name \in co_varnames \cup co_freevars

\* _Ref.__init__(frame, name): the reference capture, or KeyError
ref_init(fast, glob, name) ==
    LET in_local == ref_in_local(name)
        d == ref_d(fast, glob, in_local)
    IN  IF name \notin DOMAIN d
        THEN [err |-> "KeyError", ref |-> None]
        ELSE [err |-> None,
              ref |-> [name |-> name, in_local |-> in_local, state |-> d[name]]]

\* _Ref.is_changed(): self._d()[self.name] is not self.state
ref_is_changed(fast, glob, ref) ==
    ref_d(fast, glob, ref.in_local)[ref.name] # ref.state

\* (mutant) writes the dictionary and never calls PyFrame_LocalsToFast
ref_rollback_no_sync(fast, glob, ref) ==
    IF ref.in_local
    THEN [fast |-> fast, glob |-> glob]
    ELSE [fast |-> fast, glob |-> Put(glob, ref.name, ref.state)]

\* _Ref.rollback(): write the dictionary, then PyFrame_LocalsToFast
ref_rollback(fast, glob, ref) ==
    IF ref.in_local
    THEN [fast |-> LocalsToFast(Put(f_locals(fast), ref.name, ref.state), fast),
          glob |-> glob]
    ELSE [fast |-> fast, glob |-> Put(glob, ref.name, ref.state)]

\* --------------------------------------------------------------- _Context
_Immutable ==
    {"bool", "int", "float", "complex", "Decimal", "str", "tuple", "frozenset"}

\* (mutant) isinstance(item, tuple(_Immutable)): subclasses count too
is_immutable_isinstance(cls) ==
    \E i \in 1..Len(mro(cls)) : mro(cls)[i] \in _Immutable

\* cls in _Immutable
is_immutable(cls) == cls \in _Immutable

\* the first class of all_subclass whose has_proto(item) holds, 0 if none
first_proto(item) ==
    LET hits == {i \in 1..Len(all_subclass) : has_proto(all_subclass[i], item)}
    IN  IF hits = {} THEN 0 ELSE CHOOSE i \in hits : \A j \in hits : i <= j

\* _Context.track(item) up to _begin_track: the capture, tracked, or the
\* error raised
track(h, item) ==
    LET cls == type(item)
        ok(rb) == [err |-> None, rb |-> rb_track(h, rb)]
    IN  IF is_immutable(cls)
        THEN [err |-> "TypeError: is immutable", rb |-> None]
        ELSE IF cls \in DOMAIN type_map
        THEN ok(NewRb(type_map[cls], ObjRef(item)))
        ELSE IF first_proto(item) # 0
        THEN ok(NewRb(all_subclass[first_proto(item)], ObjRef(item)))
        ELSE IF vars_kind(item) = "dict"
        THEN ok([NewRb("_RollbackableProxy", ObjRef(item)) EXCEPT
                    !.proxy_obj = NewRb("_GenericContainer", DictRef(item))])
        ELSE IF vars_kind(item) = "TypeError"
        THEN ok([NewRb("_Slots", ObjRef(item)) EXCEPT
                    !.attrs = _get_slots_attrs(cls)])
        ELSE [err |-> "TypeError: unknown type", rb |-> None]

\* (mutant) an item that cannot be tracked is skipped
RECURSIVE track_items_skips(_, _, _)
track_items_skips(h, items, tracked) ==
    IF items = <<>> THEN [err |-> None, tracked |-> tracked]
    ELSE LET r == track(h, Head(items))
         IN  IF r.err # None THEN track_items_skips(h, Tail(items), tracked)
             ELSE track_items_skips(h, Tail(items), Append(tracked, r.rb))

\* use(): for item in items: ctx.track(item)
RECURSIVE track_items(_, _, _)
track_items(h, items, tracked) ==
    IF items = <<>> THEN [err |-> None, tracked |-> tracked]
    ELSE LET r == track(h, Head(items))
         IN  IF r.err # None THEN [err |-> r.err, tracked |-> tracked]
             ELSE track_items(h, Tail(items), Append(tracked, r.rb))

\* use(): for ref_name in refs: ctx.track_ref(ref_name)
RECURSIVE track_refs(_, _, _, _)
track_refs(fast, glob, refs, ref_tracked) ==
    IF refs = <<>> THEN [err |-> None, ref_tracked |-> ref_tracked]
    ELSE LET r == ref_init(fast, glob, Head(refs))
         IN  IF r.err # None THEN [err |-> r.err, ref_tracked |-> ref_tracked]
             ELSE track_refs(fast, glob, Tail(refs), Append(ref_tracked, r.ref))

\* (mutant) list.pop(0)
pop_first(list) == 1

\* list.pop(): the index it removes
pop_index(list) == Len(list)
Without(list, i) == SubSeq(list, 1, i - 1) \o SubSeq(list, i + 1, Len(list))

\* (mutant) a capture is removed only after its restore returned
RECURSIVE drain_tracked_pop_after(_, _, _)
drain_tracked_pop_after(h, tracked, log) ==
    IF tracked = <<>>
    THEN [err |-> None, heap |-> h, tracked |-> tracked, log |-> log]
    ELSE LET i == pop_index(tracked)
             r == rb_rollback(h, tracked[i])
             e == [list |-> "_tracked", pos |-> i, what |-> tracked[i].target.obj,
                   dirty |-> rb_is_changed(h, tracked[i])]
         IN  IF r.err # None
             THEN [err |-> r.err, heap |-> r.heap, tracked |-> tracked, log |-> log]
             ELSE drain_tracked_pop_after(r.heap, Without(tracked, i),
                                          Append(log, e))

\* _Context.rollback(), first loop: while self._tracked: pop().rollback()
RECURSIVE drain_tracked(_, _, _)
drain_tracked(h, tracked, log) ==
    IF tracked = <<>>
    THEN [err |-> None, heap |-> h, tracked |-> tracked, log |-> log]
    ELSE LET i == pop_index(tracked)
             r == rb_rollback(h, tracked[i])
             e == [list |-> "_tracked", pos |-> i, what |-> tracked[i].target.obj,
                   dirty |-> rb_is_changed(h, tracked[i])]
         IN  IF r.err # None
             THEN [err |-> r.err, heap |-> r.heap,
                   tracked |-> Without(tracked, i), log |-> log]
             ELSE drain_tracked(r.heap, Without(tracked, i), Append(log, e))

\* _Context.rollback(), second loop: while self._ref_tracked: pop().rollback()
RECURSIVE drain_refs(_, _, _, _)
drain_refs(fast, glob, ref_tracked, log) ==
    IF ref_tracked = <<>>
    THEN [fast |-> fast, glob |-> glob, log |-> log]
    ELSE LET i == pop_index(ref_tracked)
             r == ref_rollback(fast, glob, ref_tracked[i])
             e == [list |-> "_ref_tracked", pos |-> i, what |-> ref_tracked[i].name,
                   dirty |-> ref_is_changed(fast, glob, ref_tracked[i])]
         IN  drain_refs(r.fast, r.glob, Without(ref_tracked, i), Append(log, e))

\* (mutant) restores the references by iterating, without popping them
rollback_keeps_refs(h, fast, glob, tracked, ref_tracked) ==
    LET t == drain_tracked(h, tracked, <<>>)
    IN  IF t.err # None
        THEN [err |-> t.err, heap |-> t.heap, fast |-> fast, glob |-> glob,
              tracked |-> t.tracked, ref_tracked |-> ref_tracked, log |-> t.log]
        ELSE LET r == drain_refs(fast, glob, ref_tracked, t.log)
             IN  [err |-> None, heap |-> t.heap, fast |-> r.fast, glob |-> r.glob,
                  tracked |-> <<>>, ref_tracked |-> ref_tracked, log |-> r.log]

\* (mutant) restores the captures by iterating, without popping them
rollback_keeps_captures(h, fast, glob, tracked, ref_tracked) ==
    LET t == drain_tracked(h, tracked, <<>>)
    IN  IF t.err # None
        THEN [err |-> t.err, heap |-> t.heap, fast |-> fast, glob |-> glob,
              tracked |-> t.tracked, ref_tracked |-> ref_tracked, log |-> t.log]
        ELSE LET r == drain_refs(fast, glob, ref_tracked, t.log)
             IN  [err |-> None, heap |-> t.heap, fast |-> r.fast, glob |-> r.glob,
                  tracked |-> tracked, ref_tracked |-> <<>>, log |-> r.log]

\* _Context.rollback(): everything it leaves behind
rollback(h, fast, glob, tracked, ref_tracked) ==
    LET t == drain_tracked(h, tracked, <<>>)
    IN  IF t.err # None
        THEN [err |-> t.err, heap |-> t.heap, fast |-> fast, glob |-> glob,
              tracked |-> t.tracked, ref_tracked |-> ref_tracked, log |-> t.log]
        ELSE LET r == drain_refs(fast, glob, ref_tracked, t.log)
             IN  [err |-> None, heap |-> t.heap, fast |-> r.fast, glob |-> r.glob,
                  tracked |-> <<>>, ref_tracked |-> <<>>, log |-> r.log]

\* (mutant) looks the capture up with == instead of is
is_changed_by_equality(h, tracked, item) ==
    LET hits == {i \in 1..Len(tracked) :
                    /\ type(tracked[i].target.obj) = type(item)
                    /\ h[tracked[i].target.obj] = h[item]}
    IN  IF hits = {}
        THEN [err |-> "ValueError: untracked object", val |-> None]
        ELSE [err |-> None,
              val |-> Bool(rb_is_changed(h, tracked[CHOOSE i \in hits :
                                                     \A j \in hits : i <= j]))]

\* (mutant) answers from the latest capture of item
is_changed_latest(h, tracked, item) ==
    LET hits == {i \in 1..Len(tracked) : tracked[i].target = ObjRef(item)}
    IN  IF hits = {}
        THEN [err |-> "ValueError: untracked object", val |-> None]
        ELSE [err |-> None,
              val |-> Bool(rb_is_changed(h, tracked[CHOOSE i \in hits :
                                                     \A j \in hits : i >= j]))]

\* _Context.is_changed(item): the first capture whose target is item
is_changed(h, tracked, item) ==
    LET hits == {i \in 1..Len(tracked) : tracked[i].target = ObjRef(item)}
    IN  IF hits = {}
        THEN [err |-> "ValueError: untracked object", val |-> None]
        ELSE [err |-> None,
              val |-> Bool(rb_is_changed(h, tracked[CHOOSE i \in hits :
                                                     \A j \in hits : i <= j]))]

\* _Context.is_ref_changed(name): the first reference capture of that name
is_ref_changed(fast, glob, ref_tracked, name) ==
    LET hits == {i \in 1..Len(ref_tracked) : ref_tracked[i].name = name}
    IN  IF hits = {}
        THEN [err |-> "ValueError: untracked ref", val |-> None]
        ELSE [err |-> None,
              val |-> Bool(ref_is_changed(fast, glob,
                         ref_tracked[CHOOSE i \in hits : \A j \in hits : i <= j]))]

\* (mutant) __exit__ returns a true value
exit_swallows == TRUE

\* __exit__ returns None: the block's exception is not suppressed
exit_suppresses == FALSE


\* ------------------------------------------------------------- the caller
\* the names use(refs=...) is given: the caller's names, and "z", a name
\* bound nowhere
RefArgs == Names \cup {"z"}

SeqsUpTo(S, n) == UNION {[1..k -> S] : k \in 0..n}

\* the argument lists tried: any one object or name, alone or together with
\* the list L1, the rejecting state-object SR1, the local "a", the global "g"
Companions == {"L1", "SR1", "a", "g"}
ArgLists(S) ==
    {q \in SeqsUpTo(S, MaxArgs) :
        Cardinality({i \in DOMAIN q : q[i] \notin Companions}) <= 1}
Range(q) == {q[i] : i \in 1..Len(q)}

\* names of the attributes the block assigns or deletes on an object
AttrNames(o) ==
    CASE is_dataclass(o)     -> {"f1", "x"}
      [] type(o) = "UserStr" -> {"value"}
      [] type(o) = "type"    -> {"x"}
      [] OTHER               -> {"x", "y"}

\* every state one in-place statement of the block can give object o
Mutations(o, s) ==
    (IF type(o) \in {"list", "bytearray", "ListSub"}
     THEN {[s EXCEPT !.seq = Append(@, v)] :
              v \in IF Len(s.seq) < MaxLen THEN Vals ELSE {}}
          \cup {[s EXCEPT !.seq = SubSeq(@, 1, Len(@) - 1)] :
              x \in IF s.seq # <<>> THEN {0} ELSE {}}
     ELSE {})
    \cup
    (IF type(o) = "set"
     THEN {[s EXCEPT !.elems = @ \cup {v}] : v \in Vals}
          \cup {[s EXCEPT !.elems = @ \ {v}] : v \in Vals}
     ELSE {})
    \cup
    (IF type(o) \in {"dict", "defaultdict", "DictState"}
     THEN {[s EXCEPT !.map = Put(@, "k2", v)] : v \in Vals}
          \cup {[s EXCEPT !.map = Del(@, k)] : k \in DOMAIN s.map}
     ELSE {})
    \cup
    (IF vars_kind(o) # "TypeError"
     THEN {[s EXCEPT !.attrs = Put(@, k, v)] : k \in AttrNames(o), v \in Vals}
          \cup {[s EXCEPT !.attrs = Del(@, k)] : k \in DOMAIN s.attrs}
     ELSE {})
    \cup
    {[s EXCEPT !.slots = Put(@, k, v)] : k \in SlotStorage(o), v \in Vals}
    \cup {[s EXCEPT !.slots = Del(@, k)] : k \in DOMAIN s.slots}

\* the caller's own view of a name: its fast local, or the module global
caller_load(fast, glob, n) == IF n \in LocalsPlus THEN fast[n] ELSE glob[n]

VARIABLES
    heap,          \* object -> its state
    fast,          \* the calling frame's fast locals (and cells)
    f_globals,     \* the module's globals
    _tracked,      \* ctx._tracked
    _ref_tracked,  \* ctx._ref_tracked
    pc,            \* "start", "block" (in the with block), "done", "failed"
    args,          \* what use() was called with
    steps,         \* state-changing statements run since use() returned
    last,          \* the last operation: its argument, result and error
    before,        \* object -> its state when its tracking last began
    meddled,       \* the block itself called ctx.track or ctx.rollback
    consumed       \* a rollback() has returned and nothing was tracked since

vars == <<heap, fast, f_globals, _tracked, _ref_tracked, pc, args, steps,
          last, before, meddled, consumed>>

\* `tracked` and `ref_tracked` are the lists a rollback() call started from,
\* `log` what it restored, in order, and whether that had changed; `run` counts rollback() calls made in a
\* row (2 standing for two or more)
NoOp == [op |-> None, arg |-> None, err |-> None, val |-> None, log |-> <<>>,
         tracked |-> <<>>, ref_tracked |-> <<>>, run |-> 0]

InitFast ==
    [k \in LocalsPlus |->
        CASE k = "a" -> "L1" [] k = "n" -> "I15" [] k = "c" -> "I15"
          [] OTHER -> NULL]
InitGlobals == [k \in {"g", "c"} |-> IF k = "g" THEN "B1" ELSE "I16"]

Init ==
    /\ heap = [o \in Objs |-> InitObj(o)]
    /\ fast = InitFast
    /\ f_globals = InitGlobals
    /\ _tracked = <<>>
    /\ _ref_tracked = <<>>
    /\ pc = "start"
    /\ args = [items |-> <<>>, refs |-> <<>>]
    /\ steps = 0
    /\ last = NoOp
    /\ before = EmptyFn
    /\ meddled = FALSE
    /\ consumed = FALSE

\* objects the caller's statements touch: the arguments, what the scope
\* tracks, and what the named variables are bound to
InPlay ==
    Range(args.items)
        \cup {_tracked[i].target.obj : i \in 1..Len(_tracked)}
        \cup {caller_load(fast, f_globals, n) : n \in Range(args.refs)}

\* ctx = use(*items, refs=refs)
Use(items, refs) ==
    /\ pc = "start"
    /\ Len(items) + Len(refs) <= MaxArgs
    /\ LET t == track_items(heap, items, <<>>)
           r == IF t.err # None
                THEN [err |-> t.err, ref_tracked |-> <<>>]
                ELSE track_refs(fast, f_globals, refs, <<>>)
       IN  /\ _tracked' = t.tracked
           /\ _ref_tracked' = r.ref_tracked
           /\ pc' = IF r.err = None THEN "block" ELSE "failed"
           /\ last' = [NoOp EXCEPT !.op = "use", !.err = r.err]
           /\ before' = [o \in {t.tracked[i].target.obj : i \in 1..Len(t.tracked)}
                           |-> heap[o]]
    /\ args' = [items |-> items, refs |-> refs]
    /\ UNCHANGED <<heap, fast, f_globals, steps, meddled, consumed>>

\* an in-place statement of the caller on object o
Mutate(o) ==
    /\ pc \in {"block", "done"}
    /\ steps < MaxSteps
    /\ o \in InPlay
    /\ \E s \in Mutations(o, heap[o]) \ {heap[o]} :
          heap' = [heap EXCEPT ![o] = s]
    /\ steps' = steps + 1
    /\ last' = [NoOp EXCEPT !.op = "mutate", !.arg = o]
    /\ UNCHANGED <<fast, f_globals, _tracked, _ref_tracked, pc, args, before,
                   meddled, consumed>>

\* the caller's assignment statement  n = o
Rebind(n, o) ==
    /\ pc \in {"block", "done"}
    /\ steps < MaxSteps
    /\ n \in Range(args.refs)
    /\ o # caller_load(fast, f_globals, n)
    /\ IF n \in LocalsPlus
       THEN fast' = [fast EXCEPT ![n] = o] /\ UNCHANGED f_globals
       ELSE f_globals' = [f_globals EXCEPT ![n] = o] /\ UNCHANGED fast
    /\ steps' = steps + 1
    /\ last' = [NoOp EXCEPT !.op = "rebind", !.arg = n]
    /\ UNCHANGED <<heap, _tracked, _ref_tracked, pc, args, before, meddled,
                   consumed>>

\* ctx.track(o), called by the block itself
Track(o) ==
    /\ pc = "block"
    /\ steps < MaxSteps
    /\ LET r == track(heap, o)
       IN  /\ _tracked' = IF r.err = None THEN Append(_tracked, r.rb) ELSE _tracked
           /\ last' = [NoOp EXCEPT !.op = "track", !.arg = o, !.err = r.err]
           /\ before' = IF r.err = None
                           /\ \A i \in 1..Len(_tracked) : _tracked[i].target.obj # o
                        THEN Put(before, o, heap[o]) ELSE before
           /\ consumed' = (consumed /\ r.err # None)
    /\ steps' = steps + 1
    /\ meddled' = TRUE
    /\ UNCHANGED <<heap, fast, f_globals, _ref_tracked, pc, args>>

\* (mutant) the query stores the state it has just read in the capture
IsChanged_retracks(o) ==
    /\ pc \in {"block", "done"}
    /\ LET r == is_changed(heap, _tracked, o)
       IN  last' = [NoOp EXCEPT !.op = "is_changed", !.arg = o,
                                !.err = r.err, !.val = r.val]
    /\ _tracked' = [i \in 1..Len(_tracked) |->
                       IF _tracked[i].target.obj = o
                       THEN rb_track(heap, _tracked[i]) ELSE _tracked[i]]
    /\ UNCHANGED <<heap, fast, f_globals, _ref_tracked, pc, args,
                   steps, before, meddled, consumed>>

\* ctx.is_changed(o)
IsChanged(o) ==
    /\ pc \in {"block", "done"}
    /\ LET r == is_changed(heap, _tracked, o)
       IN  last' = [NoOp EXCEPT !.op = "is_changed", !.arg = o,
                                !.err = r.err, !.val = r.val]
    /\ UNCHANGED <<heap, fast, f_globals, _tracked, _ref_tracked, pc, args,
                   steps, before, meddled, consumed>>

\* ctx.is_ref_changed(n)
IsRefChanged(n) ==
    /\ pc \in {"block", "done"}
    /\ LET r == is_ref_changed(fast, f_globals, _ref_tracked, n)
       IN  last' = [NoOp EXCEPT !.op = "is_ref_changed", !.arg = n,
                                !.err = r.err, !.val = r.val]
    /\ UNCHANGED <<heap, fast, f_globals, _tracked, _ref_tracked, pc, args,
                   steps, before, meddled, consumed>>

\* (mutant) the lists keep what they held
DoRollback_keeps_lists(r) ==
    /\ heap' = r.heap
    /\ fast' = r.fast
    /\ f_globals' = r.glob
    /\ UNCHANGED <<_tracked, _ref_tracked>>

\* the effect of one _Context.rollback() call on the program's state
DoRollback(r) ==
    /\ heap' = r.heap
    /\ fast' = r.fast
    /\ f_globals' = r.glob
    /\ _tracked' = r.tracked
    /\ _ref_tracked' = r.ref_tracked

\* ctx.rollback(), called by the caller itself
Rollback ==
    /\ pc \in {"block", "done"}
    /\ LET r == rollback(heap, fast, f_globals, _tracked, _ref_tracked)
       IN  /\ DoRollback(r)
           /\ last' = [NoOp EXCEPT !.op = "rollback", !.err = r.err, !.log = r.log,
                          !.tracked = _tracked, !.ref_tracked = _ref_tracked,
                          !.run = IF last.op \in {"rollback", "exit"} THEN 2 ELSE 1]
           /\ consumed' = (r.err = None)
    /\ meddled' = (meddled \/ pc = "block")
    /\ UNCHANGED <<pc, args, steps, before>>

\* the with statement leaves the block, normally (exc = None) or because
\* the block raised exc: __exit__ runs rollback(); last.err is the error
\* that leaves the with statement
Exit(exc) ==
    /\ pc = "block"
    /\ LET r == rollback(heap, fast, f_globals, _tracked, _ref_tracked)
       IN  /\ DoRollback(r)
           /\ last' = [NoOp EXCEPT !.op = "exit", !.arg = exc, !.log = r.log,
                          !.err = IF r.err # None THEN r.err
                                  ELSE IF exit_suppresses THEN None ELSE exc,
                          !.tracked = _tracked, !.ref_tracked = _ref_tracked,
                          !.run = IF last.op = "rollback" THEN 2 ELSE 1]
           /\ consumed' = (r.err = None)
    /\ pc' = "done"
    /\ UNCHANGED <<args, steps, before, meddled>>

BlockEnds == Exit(None)
BlockRaises == Exit("BlockError")

Next ==
    \/ /\ pc = "start"
       /\ \E items \in ArgLists(Objs), refs \in ArgLists(RefArgs) : Use(items, refs)
    \/ \E o \in Objs : Mutate(o)
    \/ \E n \in Names, o \in {"L1", "L2", "I16"} : Rebind(n, o)
    \/ \E o \in Range(args.items) : Track(o)
    \/ \E o \in Range(args.items) \cup {"L2"} : IsChanged(o)
    \/ \E n \in Range(args.refs) \cup {"g"} : IsRefChanged(n)
    \/ Rollback
    \/ BlockEnds
    \/ BlockRaises

Spec == Init /\ [][Next]_vars

\* ------------------------------------------------------------------ claims
\* a rollback() started from `tracked` meets a capture whose restore raises
Rejects(tracked) ==
    \E i \in 1..Len(tracked) : type(tracked[i].target.obj) = "StateRej"

\* the oldest capture of object o in `tracked`
FirstCapture(tracked, o) ==
    tracked[CHOOSE i \in 1..Len(tracked) :
               /\ tracked[i].target.obj = o
               /\ \A j \in 1..(i - 1) : tracked[j].target.obj # o]

\* every target of `tracked` is in the state its oldest capture holds, and
\* every name of `ref_tracked` is bound to the object its capture holds
Restored(tracked, ref_tracked) ==
    /\ \A i \in 1..Len(tracked) :
          LET rb == FirstCapture(tracked, tracked[i].target.obj)
          IN  get_state(heap, rb) = held_state(rb)
    /\ \A i \in 1..Len(ref_tracked) :
          LET r == ref_tracked[i]
          IN  ref_d(fast, f_globals, r.in_local)[r.name] = r.state

\* the kinds of target the round trip is stated for
SupportedKinds == {"list", "set", "dict", "DC", "StateObj", "Bag", "Slotted"}

\* C1: for every supported target T (list, set, dict, data-record,
\* state-object, attribute-bag object, slotted object) and every sequence of
\* in-place mutations of T between use(T) and scope exit, T's state after
\* the exit is its state immediately before tracking began.  (Stated for
\* blocks that only mutate and query, and exits whose rollback completes.)
C1_RoundTrip ==
    (last.op = "exit" /\ ~meddled /\ ~Rejects(last.tracked)) =>
        \A o \in Range(args.items) :
            type(o) \in SupportedKinds => heap[o] = before[o]

\* what does hold for C1: the state the variant defines (for a data-record,
\* its declared fields) is the one before tracking
C1_RoundTripOfVariantState ==
    (last.op = "exit" /\ ~meddled /\ ~Rejects(last.tracked)) =>
        \A i \in 1..Len(last.tracked) :
            LET rb == last.tracked[i]
                o == rb.target.obj
            IN  get_state(heap, rb) = get_state([heap EXCEPT ![o] = before[o]], rb)

\* C2 as claimed: when the block raises, scope exit restores every tracked
\* target and reference and the block's error is the one that leaves the
\* scope.
C2_BlockErrorPropagates ==
    (last.op = "exit" /\ last.arg = "BlockError") =>
        /\ last.err = "BlockError"
        /\ _tracked = <<>> /\ _ref_tracked = <<>>
        /\ Restored(last.tracked, last.ref_tracked)

\* C2 amended: that holds provided no restore operation raises during the
\* rollback; when one does, its error is the one that leaves the scope.
C2_BlockErrorPropagatesUnlessRestoreRaises ==
    (last.op = "exit" /\ last.arg = "BlockError") =>
        IF Rejects(last.tracked)
        THEN last.err = "RuntimeError"
        ELSE /\ last.err = "BlockError"
             /\ _tracked = <<>> /\ _ref_tracked = <<>>
             /\ Restored(last.tracked, last.ref_tracked)
             /\ Len(last.log) = Len(last.tracked) + Len(last.ref_tracked)

\* C2 witness: a block that changed a tracked target and a tracked name and
\* then raised has been left
C2_Witness ==
    /\ last.op = "exit" /\ last.arg = "BlockError" /\ last.err = "BlockError"
    /\ \E i \in 1..Len(last.log) :
          last.log[i].list = "_tracked" /\ last.log[i].dirty
    /\ \E i \in 1..Len(last.log) :
          last.log[i].list = "_ref_tracked" /\ last.log[i].dirty

\* C3 as claimed: a rollback() call that directly follows another one on the
\* same scope changes no target and no binding and does not raise.
C3_SecondRollbackIsNoOp ==
    [][(last.op \in {"rollback", "exit"} /\ last'.op = "rollback") =>
          /\ heap' = heap /\ fast' = fast /\ f_globals' = f_globals
          /\ last'.err = None]_vars

\* C3 amended: a rollback() call that directly follows one that returned
\* without raising finds both lists empty, changes no target and no binding
\* and does not raise.
C3_SecondRollbackAfterCompletedOneIsNoOp ==
    [][(/\ last.op \in {"rollback", "exit"}
        /\ last.err # "RuntimeError"
        /\ last'.op = "rollback") =>
          /\ _tracked = <<>> /\ _ref_tracked = <<>>
          /\ heap' = heap /\ fast' = fast /\ f_globals' = f_globals
          /\ _tracked' = <<>> /\ _ref_tracked' = <<>>
          /\ last'.err = None]_vars

\* C3 witness: rollback() was called right after a rollback that returned,
\* on a scope that tracked a target and whose caller ran statements
C3_Witness ==
    /\ last.op = "rollback" /\ last.run = 2 /\ last.err = None
    /\ steps > 0
    /\ before # EmptyFn

\* C4: is_changed(item) on a tracked target is false right after tracking
\* began, true whenever the variant-defined state differs from the state
\* captured when tracking began, and false again once the target is back in
\* that state; states are compared by equality.
C4_ChangeDetection ==
    (last.op = "is_changed" /\ last.err = None) =>
        LET o == last.arg
            rb == FirstCapture(_tracked, o)
            was == [heap EXCEPT ![o] = before[o]]
        IN  /\ last.val = Bool(get_state(heap, rb) # get_state(was, rb))
            /\ heap[o] = before[o] => last.val = "False"

\* C4 witness: is_changed answered false for a target that the block
\* mutated and then put back
C4_Witness ==
    /\ last.op = "is_changed" /\ last.err = None /\ last.val = "False"
    /\ pc = "block" /\ ~meddled /\ steps = 2
    /\ args = [items |-> <<last.arg>>, refs |-> <<>>]
    /\ type(last.arg) = "dict"

\* C5: is_changed(item) raises the lookup error exactly when no active
\* capture's target is the very object item, is_ref_changed(name) exactly
\* when no active reference capture has that name, and a lookup changes no
\* target, binding or capture.
C5_UntrackedLookup ==
    [][/\ last'.op = "is_changed" =>
            /\ (last'.err = "ValueError: untracked object")
                  <=> \A i \in 1..Len(_tracked) : _tracked[i].target.obj # last'.arg
            /\ UNCHANGED <<heap, fast, f_globals, _tracked, _ref_tracked>>
       /\ last'.op = "is_ref_changed" =>
            /\ (last'.err = "ValueError: untracked ref")
                  <=> \A i \in 1..Len(_ref_tracked) : _ref_tracked[i].name # last'.arg
            /\ UNCHANGED <<heap, fast, f_globals, _tracked, _ref_tracked>>]_vars

\* C5 witness: the lookup error for L2 while the equal list L1 is tracked
C5_Witness ==
    /\ last.op = "is_changed" /\ last.arg = "L2"
    /\ last.err = "ValueError: untracked object"
    /\ \E i \in 1..Len(_tracked) : _tracked[i].target.obj = "L1"
    /\ heap["L1"] = heap["L2"]
    /\ steps > 0

\* C6: is_ref_changed(name) on a tracked name is true exactly when the name
\* is now bound, in the code that called use(), to an object that is not the
\* very object it was bound to when tracking began.
C6_RefChangedIffRebound ==
    (last.op = "is_ref_changed" /\ last.err = None) =>
        last.val = Bool(caller_load(fast, f_globals, last.arg)
                            # caller_load(InitFast, InitGlobals, last.arg))

\* what does hold for C6: the comparison is by identity, in the scope _Ref
\* resolved the name in
C6_RefChangedInResolvedScope ==
    (last.op = "is_ref_changed" /\ last.err = None) =>
        LET loc == ref_in_local(last.arg)
        IN  last.val = Bool(ref_d(fast, f_globals, loc)[last.arg]
                                # ref_d(InitFast, InitGlobals, loc)[last.arg])

\* every name of `refs` is bound, in the scope it was resolved in, to the
\* object it was bound to before use()
BoundAsBefore(f, g, refs) ==
    \A i \in 1..Len(refs) :
        LET n == refs[i].name
            loc == ref_in_local(n)
        IN  ref_d(f, g, loc)[n] = ref_d(InitFast, InitGlobals, loc)[n]

\* C7 as claimed: scope exit leaves every tracked name bound, in the scope
\* it was resolved in, to the very object it was bound to at tracking start,
\* and reference tracking restores no object's contents.
C7_ExitRestoresBindings ==
    [][last'.op = "exit" =>
          /\ BoundAsBefore(fast', f_globals', _ref_tracked)
          /\ _tracked = <<>> => heap' = heap]_vars

\* C7 amended: that holds of every scope exit whose rollback no restore
\* operation makes raise.
C7_ExitRestoresBindingsUnlessRestoreRaises ==
    [][(last'.op = "exit" /\ ~Rejects(_tracked)) =>
          /\ BoundAsBefore(fast', f_globals', _ref_tracked)
          /\ _ref_tracked' = <<>>
          /\ _tracked = <<>> => heap' = heap]_vars

\* C7 witness: an exit has put back a local and a global that the block had
\* both rebound
C7_Witness ==
    /\ last.op = "exit" /\ last.err = None
    /\ Len(last.log) = 2
    /\ \A i \in 1..2 : last.log[i].list = "_ref_tracked" /\ last.log[i].dirty
    /\ {last.log[i].what : i \in 1..2} = {"a", "g"}
    /\ fast["a"] = "L1" /\ f_globals["g"] = "B1"

\* the item a failed use() stopped at
FailedItem == args.items[Len(_tracked) + 1]

\* C8: track(item) raises the immutable-target error exactly when type(item)
\* is one of bool, int, float, complex, Decimal, str, tuple, frozenset; an
\* instance of a user subclass of one is tracked, through its attribute
\* dictionary or its slots, and restored on exit.
C8_ImmutableExactType ==
    /\ (last.op = "use" /\ Len(_tracked) < Len(args.items)) =>
          (last.err = "TypeError: is immutable"
              <=> type(FailedItem) \in {"bool", "int", "float", "complex",
                                        "Decimal", "str", "tuple", "frozenset"})
    /\ (last.op = "use" /\ last.err = None) =>
          /\ Len(_tracked) = Len(args.items)
          /\ \A i \in 1..Len(_tracked) :
                LET rb == _tracked[i]
                IN  /\ rb.target.obj = args.items[i]
                    /\ type(rb.target.obj) = "UserStr" =>
                          /\ rb.variant = "_RollbackableProxy"
                          /\ rb.proxy_obj.state = heap[rb.target.obj].attrs
                    /\ type(rb.target.obj) = "UserStrSlots" =>
                          /\ rb.variant = "_Slots"
                          /\ rb.state = heap[rb.target.obj].slots
    /\ (last.op = "exit" /\ ~meddled /\ ~Rejects(last.tracked)) =>
          \A o \in Range(args.items) :
              type(o) \in {"UserStr", "UserStrSlots"} => heap[o] = before[o]

\* C8 witness: use() stopped at a str, after tracking a list
C8_Witness ==
    /\ pc = "failed" /\ last.err = "TypeError: is immutable"
    /\ Len(_tracked) = 1
    /\ type(FailedItem) = "str"

\* C8 second witness: a str subclass instance has been changed and restored
C8_WitnessSubclass ==
    /\ last.op = "exit" /\ last.err = None
    /\ \E i \in 1..Len(last.log) :
          type(last.log[i].what) = "UserStr" /\ last.log[i].dirty

\* no variant matches o, and it has neither an attribute dictionary nor slots
Unsupported(o) ==
    /\ ~(type(o) \in {"list", "set", "dict", "defaultdict"})
    /\ ~is_dataclass(o)
    /\ ~({"copy", "clear", "update"} \subseteq Callables(o))
    /\ ~({"get_state", "from_state"} \subseteq Callables(o))
    /\ vars_kind(o) # "dict"
    /\ \A i \in 1..Len(mro(type(o))) :
          LET s == SlotsDecl(mro(type(o))[i]) IN ~s.isstr /\ s.val = {}

\* C9: track(item) raises the unsupported-target error whenever no variant
\* matches item and item has neither an attribute dictionary nor slots, and
\* then appends nothing to the capture list.  (Items of the immutable kinds,
\* which the immutable check rejects first, set aside.)
C9_UnsupportedIsRejected ==
    \A i \in 1..Len(_tracked) :
        LET o == _tracked[i].target.obj
        IN  ~(Unsupported(o) /\ type(o) \notin _Immutable)

\* C10: rollback() restores the captures last tracked first, and only then
\* the reference captures, last tracked first.
C10_ReverseOrder ==
    (last.op \in {"rollback", "exit"}) =>
        LET nt == Len(last.tracked)
            nr == Len(last.ref_tracked)
            k == Cardinality({i \in 1..Len(last.log) :
                                 last.log[i].list = "_tracked"})
        IN  /\ \A i \in 1..k :
                  /\ last.log[i].list = "_tracked"
                  /\ last.log[i].pos = nt + 1 - i
                  /\ last.log[i].what = last.tracked[nt + 1 - i].target.obj
            /\ \A i \in (k + 1)..Len(last.log) :
                  /\ last.log[i].list = "_ref_tracked"
                  /\ last.log[i].pos = nr + 1 - (i - k)
                  /\ last.log[i].what = last.ref_tracked[nr + 1 - (i - k)].name
            /\ Len(last.log) > k => k = nt
            /\ last.err = None => Len(last.log) = nt + nr
            /\ last.err = "RuntimeError" =>
                  /\ Len(last.log) = k /\ k < nt
                  /\ type(last.tracked[nt - k].target.obj) = "StateRej"

\* C10 witness: one rollback restored the second capture, then the first,
\* then a name
C10_Witness ==
    /\ last.op \in {"rollback", "exit"}
    /\ Len(last.log) = 3
    /\ last.log[1].list = "_tracked" /\ last.log[1].pos = 2
    /\ last.log[2].list = "_tracked" /\ last.log[2].pos = 1
    /\ last.log[3].list = "_ref_tracked"

\* the variant the stated precedence gives a target that is not immutable
PrecedenceVariant(o) ==
    IF type(o) = "list" THEN "_List"
    ELSE IF type(o) \in {"set", "dict", "defaultdict"} THEN "_GenericContainer"
    ELSE IF is_dataclass(o) THEN "_DataClass"
    ELSE IF {"copy", "clear", "update"} \subseteq Callables(o)
         THEN "_GenericContainer"
    ELSE IF {"get_state", "from_state"} \subseteq Callables(o) THEN "_State"
    ELSE IF vars_kind(o) = "dict" THEN "_RollbackableProxy"
    ELSE "_Slots"

\* C11: every capture track(item) makes has the variant of the fixed
\* precedence: no capture of an immutable; the registered variant for the
\* exact types list, set, dict, defaultdict; else the first of data-record,
\* mapping/set-container, state-object whose predicate holds (so a
\* data-record with copy/clear/update is a data-record and an object with
\* copy/clear/update and get_state/from_state a mapping/set-container);
\* else the proxy around a mapping/set-container capture of the attribute
\* dictionary; else the per-slot capture.
C11_DispatchPrecedence ==
    \A i \in 1..Len(_tracked) :
        LET rb == _tracked[i]
            o == rb.target.obj
        IN  /\ type(o) \notin {"bool", "int", "float", "complex", "Decimal",
                                "str", "tuple", "frozenset"}
            /\ rb.target.of = "self"
            /\ rb.variant = PrecedenceVariant(o)
            /\ rb.variant = "_RollbackableProxy" =>
                  /\ rb.proxy_obj.variant = "_GenericContainer"
                  /\ rb.proxy_obj.target = [obj |-> o, of |-> "__dict__"]
            /\ rb.variant # "_RollbackableProxy" => rb.proxy_obj = None

\* C11 witness: an object with copy/clear/update and get_state/from_state
\* is tracked
C11_Witness ==
    /\ pc = "block"
    /\ \E i \in 1..Len(_tracked) : type(_tracked[i].target.obj) = "DictState"

\* C11 second witness: a data-record with copy/clear/update is tracked
C11_WitnessDataRecord ==
    /\ pc = "block"
    /\ \E i \in 1..Len(_tracked) : type(_tracked[i].target.obj) = "DCContainer"

\* C12: after a rollback that completed, every declared slot (over the whole
\* ancestor chain) of a target captured per slot is as it was at capture: a
\* slot that held a value holds that value again, a slot that was unset is
\* unset again.
C12_SlotsRestored ==
    (last.op = "exit" /\ ~meddled /\ ~Rejects(last.tracked)) =>
        \A i \in 1..Len(last.tracked) :
            LET rb == last.tracked[i]
                o == rb.target.obj
            IN  rb.variant = "_Slots" => heap[o].slots = before[o].slots

\* what does hold for C12: the slots whose value is reached under the
\* declared name are as they were at capture
C12_SlotsReachedByNameRestored ==
    (last.op = "exit" /\ ~meddled /\ ~Rejects(last.tracked)) =>
        \A i \in 1..Len(last.tracked) :
            LET rb == last.tracked[i]
                o == rb.target.obj
                names == UNION {IF SlotsDecl(mro(type(o))[j]).isstr
                                THEN {SlotsDecl(mro(type(o))[j]).val}
                                ELSE SlotsDecl(mro(type(o))[j]).val :
                                    j \in 1..Len(mro(type(o)))}
            IN  rb.variant = "_Slots" =>
                  \A n \in names :
                      /\ (n \in DOMAIN heap[o].slots) = (n \in DOMAIN before[o].slots)
                      /\ n \in DOMAIN heap[o].slots =>
                            heap[o].slots[n] = before[o].slots[n]

\* a slot that was unset at capture and assigned by the block is unset again
C12_WitnessUnsetAgain ==
    /\ last.op = "exit" /\ ~meddled
    /\ \E i \in 1..Len(last.log) :
          /\ last.log[i].dirty
          /\ type(last.log[i].what) = "Slotted"
    /\ steps = 2
    /\ args.items = <<"SL1">>
    /\ DOMAIN heap["SL1"].slots = {"a"}

\* the elements of a container, as seen through any reference to it
ContainerContents(s, o) ==
    IF type(o) \in {"list", "ListSub", "bytearray"} THEN s.seq
    ELSE IF type(o) = "set" THEN s.elems
    ELSE s.map

\* the objects a rollback whose log is `log` has restored
RestoredObjs(log) ==
    {log[i].what : i \in {j \in 1..Len(log) : log[j].list = "_tracked"}}

\* C13: rollback of a sequence-container or mapping/set-container capture
\* rewrites the contents of the target object itself: after it the one
\* object every alias refers to holds the captured contents (those of the
\* earliest capture restored), no name has been bound to another object,
\* and no other object has been touched.
C13_RestoreInPlace ==
    [][last'.op \in {"exit", "rollback"} =>
          LET log == last'.log
              caps == {i \in 1..Len(log) : log[i].list = "_tracked"}
          IN  /\ \A i \in caps :
                    LET rb == _tracked[log[i].pos]
                        o == rb.target.obj
                        first == CHOOSE j \in caps :
                                    /\ log[j].what = o
                                    /\ \A k \in caps :
                                          log[k].what = o => log[j].pos <= log[k].pos
                    IN  rb.variant \in {"_List", "_GenericContainer"} =>
                          /\ log[i].what = o
                          /\ ContainerContents(heap'[o], o)
                                = _tracked[log[first].pos].state
              /\ _ref_tracked = <<>> => (fast' = fast /\ f_globals' = f_globals)
              /\ \A o \in Objs \ RestoredObjs(log) : heap'[o] = heap[o]]_vars

\* C13 witness: an exit restored the list L1 and the set or dict tracked
\* with it, both changed by the block, and the local "a", never tracked,
\* still refers to L1
C13_Witness ==
    /\ last.op = "exit" /\ last.err = None /\ ~meddled
    /\ Len(last.log) = 2
    /\ \A i \in 1..2 : last.log[i].list = "_tracked" /\ last.log[i].dirty
    /\ \E i \in 1..2 : last.log[i].what = "L1"
    /\ \E i \in 1..2 : type(last.log[i].what) \in {"set", "dict"}
    /\ fast["a"] = "L1"
    /\ heap["L1"].seq = <<1, 2>>

\* C14: a capture's captured state is set when track runs, to the target's
\* state at that moment, and while the capture is in the list no step (a
\* mutation of the target, an is_changed query, another track call, the
\* restore of another capture) alters the capture.
C14_SnapshotStable ==
    [][/\ \A i \in 1..Len(_tracked) :
             i <= Len(_tracked') => _tracked'[i] = _tracked[i]
       /\ \A i \in (Len(_tracked) + 1)..Len(_tracked') :
             LET rb == _tracked'[i]
                 snap == IF rb.variant = "_RollbackableProxy"
                         THEN rb.proxy_obj.state ELSE rb.state
             IN  snap = get_state(heap, rb)]_vars

\* C14 witness: the block changed a tracked set twice and is_changed, asked
\* after that, answered true: the capture still holds the set's first state
C14_Witness ==
    /\ pc = "block" /\ ~meddled /\ steps = 2
    /\ last.op = "is_changed" /\ last.err = None /\ last.val = "True"
    /\ type(last.arg) = "set"
    /\ args.items = <<last.arg>>
    /\ _tracked[1].state = {1}
    /\ heap[last.arg].elems # {1}

\* the name is bound nowhere _Ref looks for it
Unresolvable(n) ==
    n \notin DOMAIN ref_d(InitFast, InitGlobals, ref_in_local(n))

\* C15: a use() call that is given a target track rejects (an immutable, or
\* a target it calls of unknown type) or a name that cannot be resolved fails
\* before the block runs: the caller gets no scope, so nothing runs on it,
\* and every object and every binding is as it was before the call.
C15_AtomicEntry ==
    /\ (\/ \E i \in 1..Len(args.items) :
              type(args.items[i]) \in
                  {"bool", "int", "float", "complex", "Decimal", "str", "tuple",
                   "frozenset", "type"}
        \/ \E i \in 1..Len(args.refs) : Unresolvable(args.refs[i]))
          => pc = "failed"
    /\ pc = "failed" =>
          /\ last.op = "use" /\ last.err # None
          /\ steps = 0 /\ ~meddled /\ ~consumed
          /\ heap = [o \in Objs |-> InitObj(o)]
          /\ fast = InitFast
          /\ f_globals = InitGlobals

\* C15 witness: use() failed on a name after it had tracked an object
C15_Witness ==
    /\ pc = "failed" /\ last.err = "KeyError"
    /\ Len(_tracked) = 1 /\ Len(args.items) = 1
    /\ Len(_ref_tracked) = 0 /\ Len(args.refs) = 1

\* the captures of object o in `tracked`
CapturesOf(tracked, o) == {i \in 1..Len(tracked) : tracked[i].target.obj = o}

\* C16: for an object tracked more than once in a scope, a rollback that
\* completed leaves the state its variant captures as it was at the first
\* track call, and is_changed(item) compares the current state with the
\* state at the first track call.
C16_FirstCaptureWins ==
    /\ (last.op \in {"exit", "rollback"} /\ last.err = None) =>
          \A o \in Objs :
              Cardinality(CapturesOf(last.tracked, o)) > 1 =>
                  LET rb == FirstCapture(last.tracked, o)
                  IN  get_state(heap, rb)
                          = get_state([heap EXCEPT ![o] = before[o]], rb)
    /\ (last.op = "is_changed" /\ last.err = None
            /\ Cardinality(CapturesOf(_tracked, last.arg)) > 1) =>
          LET o == last.arg
              rb == FirstCapture(_tracked, o)
          IN  last.val = Bool(get_state(heap, rb)
                                # get_state([heap EXCEPT ![o] = before[o]], rb))

\* C16 witness: is_changed answered true for a list that was tracked, changed
\* and tracked again, and not changed since
C16_Witness ==
    /\ pc = "block"
    /\ last.op = "is_changed" /\ last.err = None /\ last.val = "True"
    /\ type(last.arg) = "list"
    /\ Len(_tracked) = 2
    /\ \A i \in 1..2 : _tracked[i].target.obj = last.arg
    /\ _tracked[1].state # _tracked[2].state
    /\ _tracked[2].state = heap[last.arg].seq

\* C16 second witness: an exit has restored a list tracked twice, with
\* different contents, to the first
C16_WitnessExit ==
    /\ last.op = "exit" /\ last.err = None
    /\ Len(last.tracked) = 2
    /\ \A i \in 1..2 : last.tracked[i].target.obj = "L1"
    /\ last.tracked[1].state # last.tracked[2].state
    /\ heap["L1"].seq = last.tracked[1].state

\* the position of the capture whose restore stops a rollback started from
\* `tracked`: the last one of a state-object that rejects its state
FailingAt(tracked) ==
    CHOOSE k \in 1..Len(tracked) :
        /\ type(tracked[k].target.obj) = "StateRej"
        /\ \A j \in (k + 1)..Len(tracked) :
              type(tracked[j].target.obj) # "StateRej"

\* C17: when the restore of a capture raises during rollback(), the error
\* leaves rollback() and scope exit; the captures tracked after the failing
\* one have been restored, the failing one is gone from the list, the
\* captures tracked before it and all reference captures are still listed
\* and have not been restored; the next rollback() starts from exactly
\* those and, when none of them fails, restores them all.
C17_FailingRestore ==
    [][/\ (last'.op \in {"exit", "rollback"} /\ Rejects(_tracked)) =>
            LET k == FailingAt(_tracked)
                n == Len(_tracked)
            IN  /\ last'.err = "RuntimeError"
                /\ _tracked' = SubSeq(_tracked, 1, k - 1)
                /\ _ref_tracked' = _ref_tracked
                /\ fast' = fast /\ f_globals' = f_globals
                /\ Len(last'.log) = n - k
                /\ \A i \in 1..(n - k) :
                      /\ last'.log[i].list = "_tracked"
                      /\ last'.log[i].pos = n + 1 - i
                /\ \A o \in Objs :
                      (\A j \in (k + 1)..n : _tracked[j].target.obj # o)
                          => heap'[o] = heap[o]
       /\ (last.op \in {"exit", "rollback"} /\ last.err = "RuntimeError"
              /\ last'.op = "rollback") =>
            /\ last'.tracked = _tracked /\ last'.ref_tracked = _ref_tracked
            /\ ~Rejects(_tracked) =>
                  /\ last'.err = None
                  /\ Len(last'.log) = Len(_tracked) + Len(_ref_tracked)
                  /\ _tracked' = <<>> /\ _ref_tracked' = <<>>
                  /\ \A i \in 1..Len(_tracked) :
                        LET rb == FirstCapture(_tracked, _tracked[i].target.obj)
                        IN  get_state(heap', rb) = held_state(rb)
                  /\ \A i \in 1..Len(_ref_tracked) :
                        LET r == _ref_tracked[i]
                        IN  ref_d(fast', f_globals', r.in_local)[r.name] = r.state]_vars

\* C17 witness: an exit failed on the state-object tracked after the list
\* L1, and the rollback() called next has restored the changed list
C17_Witness ==
    /\ pc = "done" /\ last.op = "rollback" /\ last.err = None
    /\ args.items = <<"L1", "SR1">>
    /\ Len(last.tracked) = 1 /\ last.tracked[1].target.obj = "L1"
    /\ Len(last.log) = 1 /\ last.log[1].dirty
    /\ heap["L1"] = before["L1"]

\* C17 second witness: an exit failed with a changed name still tracked,
\* and the rollback() called next has put the name back
C17_WitnessRef ==
    /\ pc = "done" /\ last.op = "rollback" /\ last.err = None
    /\ last.tracked = <<>> /\ Len(last.ref_tracked) = 1
    /\ Len(last.log) = 1 /\ last.log[1].dirty

\* C18: once a rollback() has completed, and until something is tracked
\* again, a later rollback() and the scope exit restore nothing: they leave
\* every object and every binding as the caller's later statements made
\* them.
C18_RollbackConsumesScope ==
    [][(consumed /\ last'.op \in {"exit", "rollback"}) =>
          /\ heap' = heap /\ fast' = fast /\ f_globals' = f_globals
          /\ last'.log = <<>>
          /\ last'.err \in {None, "BlockError"}]_vars

\* C18 witness: the block called rollback(), then changed the tracked list
\* L1, and the exit has left the list changed
C18_Witness ==
    /\ last.op = "exit" /\ pc = "done" /\ meddled /\ consumed
    /\ last.tracked = <<>> /\ last.ref_tracked = <<>>
    /\ args.items = <<"L1">>
    /\ _tracked = <<>>
    /\ heap["L1"] # before["L1"]

\* C19: after a rollback() that completed, and until something is tracked
\* again, both lists are empty, and is_changed(item) and
\* is_ref_changed(name) raise the untracked lookup error whatever they are
\* asked, the targets and names use() was given included.
C19_NothingTrackedAfterRollback ==
    consumed =>
        /\ _tracked = <<>> /\ _ref_tracked = <<>>
        /\ last.op = "is_changed" => last.err = "ValueError: untracked object"
        /\ last.op = "is_ref_changed" => last.err = "ValueError: untracked ref"

\* C19 witness: inside the block, after rollback(), is_ref_changed raised for
\* a name that use() was given
C19_Witness ==
    /\ consumed /\ pc = "block"
    /\ last.op = "is_ref_changed" /\ last.err = "ValueError: untracked ref"
    /\ last.arg \in Range(args.refs)
    /\ ~Unresolvable(last.arg)

\* C19 second witness: after the exit, is_changed raised for the list that
\* use() was given
C19_WitnessTarget ==
    /\ consumed /\ pc = "done"
    /\ last.op = "is_changed" /\ last.err = "ValueError: untracked object"
    /\ last.arg = "L1" /\ args.items = <<"L1">>

\* C20: for a target that has an attribute dictionary and matches no
\* exact-type registration and no structural predicate, a rollback that
\* completes puts the attribute dictionary back as it was at track time and
\* leaves the rest of the target (the elements of a list subclass instance,
\* the slots inherited from a slotted base class) as the block left it; and
\* is_changed reports a change of the attribute dictionary only.
C20_AttributeDictOnly ==
    [][/\ (last'.op \in {"exit", "rollback"} /\ ~Rejects(_tracked)) =>
            \A i \in 1..Len(_tracked) :
                LET o == _tracked[i].target.obj
                IN  PrecedenceVariant(o) = "_RollbackableProxy" =>
                      heap'[o] = [heap[o] EXCEPT !.attrs = before[o].attrs]
       /\ (last'.op = "is_changed" /\ last'.err = None
              /\ PrecedenceVariant(last'.arg) = "_RollbackableProxy") =>
            last'.val = Bool(heap[last'.arg].attrs # before[last'.arg].attrs)]_vars

\* C20 witness: the block appended to a list subclass instance and set an
\* attribute of it; the exit has put the attribute back and left the element
C20_Witness ==
    /\ last.op = "exit" /\ last.err = None /\ ~meddled
    /\ args.items = <<"LS1">>
    /\ Len(last.log) = 1 /\ last.log[1].dirty
    /\ heap["LS1"].attrs = before["LS1"].attrs
    /\ heap["LS1"].seq # before["LS1"].seq

\* C20 second witness: the block wrote the inherited slot of an instance of
\* a subclass of a slotted class, and is_changed answered false
C20_WitnessSlot ==
    /\ pc = "block" /\ ~meddled
    /\ last.op = "is_changed" /\ last.err = None /\ last.val = "False"
    /\ last.arg = "SD1"
    /\ heap["SD1"].slots # before["SD1"].slots
====
